---- MODULE Spec2Model ----
(***************************************************************************)
(* A model of audio_cutter.py: the time parser (parse_time), the duration  *)
(* formatter (format_duration), the AudioCutter class with its two         *)
(* backends (pydub segments and raw PCM frames read through the wave       *)
(* module), save_audio and the control flow of main.                       *)
(*                                                                         *)
(* Python strings are modelled as sequences of one-character strings so    *)
(* that suffix tests, slicing, splitting, number parsing and formatting    *)
(* are computed character by character.  Python float arithmetic is        *)
(* modelled by exact rational arithmetic followed by truncation, corrected *)
(* on the points of the enumerated domain where the IEEE-754 double result *)
(* lies just below an exact integer (see SecondsSlip, MinutesSlip,         *)
(* FrameSlip).                                                             *)
(***************************************************************************)
EXTENDS Integers, Sequences, FiniteSets, TLC

VARIABLES
    \* ---- time parser / formatter harness
    p_op,           \* "none" | "parse" | "roundtrip": which function ran last
    time_str,       \* the argument of the last parse_time call
    parse_result,   \* the outcome of the last parse_time call
    format_arg,     \* the argument of the last format_duration call
    \* ---- AudioCutter object
    backend,        \* self.backend: "none" (not constructed) | "pydub" | "wave"
    sample_rate,    \* self.sample_rate
    channels,       \* self.channels
    sample_width,   \* self.sample_width
    total_frames,   \* self.total_frames
    duration_ms,    \* self.duration_ms
    audio_len,      \* len(self.audio) in milliseconds (pydub backend)
    wave_pos,       \* read position of self.wave_file, in frames
    last,           \* the last edit operation called and its outcome
    prev,           \* the extract_segment call that last repeats as a
                    \* cut_from_middle, NoCall otherwise
    \* ---- main
    pc,             \* position of main
    exc,            \* the exception main ended with, "none" if none
    exit_status,    \* process exit status, -1 while running
    handled,        \* TRUE iff an except clause of main caught the exception
    stdout,         \* lines printed to stdout, as a sequence of tags
    stderr,         \* lines printed to stderr, as a sequence of tags
    saved,          \* what save_audio wrote
    output_duration_ms  \* the duration main prints last, -1 before

parseVars == <<p_op, time_str, parse_result, format_arg>>
cutterVars == <<backend, sample_rate, channels, sample_width, total_frames,
                duration_ms, audio_len, wave_pos>>
mainVars == <<pc, exc, exit_status, handled, stdout, stderr, saved,
              output_duration_ms>>
vars == <<parseVars, cutterVars, last, prev, mainVars>>

(***************************************************************************)
(* Bounds of the enumerated domain.                                        *)
(***************************************************************************)
MaxFrames == 28     \* largest frame count of a source
MaxMs == 9         \* largest millisecond boundary passed to an operation
MaxHours == 1       \* largest hour field of a formatted duration
MaxFrac == 24       \* largest millisecond fraction of a formatted duration

(***************************************************************************)
(* Strings.                                                                *)
(***************************************************************************)
Range(s) == {s[i] : i \in 1..Len(s)}

Digits == {"0", "1", "2", "3", "4", "5", "6", "7", "8", "9"}

DigitVal == "0" :> 0 @@ "1" :> 1 @@ "2" :> 2 @@ "3" :> 3 @@ "4" :> 4 @@
            "5" :> 5 @@ "6" :> 6 @@ "7" :> 7 @@ "8" :> 8 @@ "9" :> 9

DigitChar == <<"0", "1", "2", "3", "4", "5", "6", "7", "8", "9">>

\* str.endswith
EndsWith(s, suf) ==
    /\ Len(s) >= Len(suf)
    /\ SubSeq(s, Len(s) - Len(suf) + 1, Len(s)) = suf

\* s[:-n]
DropLast(s, n) == SubSeq(s, 1, Len(s) - n)

\* str.lower, on the letters that occur in the paths of the model
LowerChar(c) ==
    CASE c = "W" -> "w" [] c = "A" -> "a" [] c = "V" -> "v"
      [] c = "M" -> "m" [] c = "P" -> "p" [] OTHER -> c

Lower(s) == [i \in 1..Len(s) |-> LowerChar(s[i])]

\* str.split(':')
RECURSIVE Split(_)
Split(s) ==
    IF ":" \notin Range(s) THEN <<s>>
    ELSE LET i == CHOOSE j \in 1..Len(s) :
                    /\ s[j] = ":"
                    /\ \A k \in 1..(j - 1) : s[k] # ":"
         IN <<SubSeq(s, 1, i - 1)>> \o Split(SubSeq(s, i + 1, Len(s)))

RECURSIVE DigitsToNat(_)
DigitsToNat(s) ==
    IF s = <<>> THEN 0
    ELSE 10 * DigitsToNat(DropLast(s, 1)) + DigitVal[s[Len(s)]]

RECURSIVE Pow10(_)
Pow10(n) == IF n = 0 THEN 1 ELSE 10 * Pow10(n - 1)

\* the decimal digits of n, zero-padded to at least w characters ({n:0wd})
RECURSIVE NatToDigits(_, _)
NatToDigits(n, w) ==
    IF n < 10 /\ w <= 1 THEN <<DigitChar[n + 1]>>
    ELSE NatToDigits(n \div 10, w - 1) \o <<DigitChar[(n % 10) + 1]>>

(***************************************************************************)
(* Numbers.  A Python float read from a string is kept as the exact        *)
(* rational num/den (den a power of ten), or as inf / nan.                 *)
(***************************************************************************)
FloatError == [kind |-> "ValueError", num |-> 0, den |-> 1]

Unsigned(s) ==
    IF s # <<>> /\ s[1] \in {"+", "-"} THEN SubSeq(s, 2, Len(s)) ELSE s

SignOf(s) == IF s # <<>> /\ s[1] = "-" THEN -1 ELSE 1

\* float(s) for s without surrounding blanks, underscores or exponent
ParseFloat(s) ==
    LET body == Unsigned(s)
        dots == {i \in 1..Len(body) : body[i] = "."}
        dot == IF dots = {} THEN Len(body) + 1 ELSE CHOOSE i \in dots : TRUE
        ip == SubSeq(body, 1, dot - 1)
        fp == SubSeq(body, dot + 1, Len(body))
    IN  IF body = <<"i", "n", "f">>
          THEN [kind |-> "inf", num |-> SignOf(s), den |-> 1]
        ELSE IF body = <<"n", "a", "n">>
          THEN [kind |-> "nan", num |-> 0, den |-> 1]
        ELSE IF \/ Cardinality(dots) > 1
                \/ ~((Range(ip) \cup Range(fp)) \subseteq Digits)
                \/ Len(ip) + Len(fp) = 0
          THEN FloatError
        ELSE [kind |-> "num",
              num |-> SignOf(s) * DigitsToNat(ip \o fp),
              den |-> Pow10(Len(fp))]

\* int(s) for a string
ParseInt(s) ==
    LET body == Unsigned(s)
    IN  IF body = <<>> \/ ~(Range(body) \subseteq Digits)
          THEN [kind |-> "ValueError", val |-> 0]
        ELSE [kind |-> "int", val |-> SignOf(s) * DigitsToNat(body)]

Abs(n) == IF n < 0 THEN -n ELSE n

\* int(x) of the exact rational n/d: truncation toward zero
Trunc(n, d) == IF n >= 0 THEN n \div d ELSE -((-n) \div d)

\* The millisecond values k for which the double nearest to k/1000, times
\* 1000, is just below k, so that int() gives k - 1
\* (int(float("1.001") * 1000) = 1000).  Complete for k up to 1099 and for
\* 59000..59099.
SecondsSlip == {1001, 1003, 1005, 1007, 1009, 1011, 1013, 1015, 1017, 1019,
                1021, 1023}

\* The same for float(x) * 60 * 1000, by exact millisecond value
\* (int(float("0.0045") * 60 * 1000) = 269).  Complete for the minute
\* strings of TimeStrings.
MinutesSlip == {270}

\* int(f * scale) of a double product whose exact value is n/d
FloatTrunc(n, d, slip) ==
    IF n % d = 0 /\ Abs(n \div d) \in slip
      THEN Trunc(n, d) - (IF n > 0 THEN 1 ELSE -1)
      ELSE Trunc(n, d)

(***************************************************************************)
(* parse_time.  The outcome is a record: kind is "int" (val is the value   *)
(* returned), "None" (the function fell off its end), or the name of the   *)
(* exception raised.                                                       *)
(***************************************************************************)
Returned(n) == [kind |-> "int", val |-> n]

Raised(e) == [kind |-> e, val |-> 0]

ReturnedNone == [kind |-> "None", val |-> 0]

\* int(f) for a float that is inf or nan, or that could not be read
NonFinite(kinds) ==
    IF "ValueError" \in kinds \/ "nan" \in kinds THEN Raised("ValueError")
    ELSE Raised("OverflowError")

\* The exact product f * scale as a fraction n/d, for a scale that is a
\* multiple of 1000 and a denominator that is a power of ten; the common
\* power of ten is cancelled first.
Cancel(den) == IF den < 1000 THEN den ELSE 1000

Times(f, scale) ==
    [n |-> f.num * (scale \div Cancel(f.den)), d |-> f.den \div Cancel(f.den)]

\* int(float(s) * scale)
ScaledInt(s, scale, slip) ==
    LET f == ParseFloat(s)
        x == Times(f, scale)
    IN  IF f.kind # "num" THEN NonFinite({f.kind})
        ELSE Returned(FloatTrunc(x.n, x.d, slip))

\* int(float(minutes) * 60 * 1000 + float(seconds) * 1000).  A non-zero
\* minute term is a multiple of 60000 in the model and the addition rounds
\* the product of the seconds back to the exact integer; with a zero minute
\* term the sum is the product of the seconds.
MinSecInt(minutes, seconds) ==
    LET m == ParseFloat(minutes)
        sec == ParseFloat(seconds)
    IN  IF m.kind # "num" \/ sec.kind # "num"
          THEN NonFinite({m.kind, sec.kind})
        ELSE LET x == Times(m, 60000)
                 y == Times(sec, 1000)
             IN  Returned(FloatTrunc(x.n * y.d + y.n * x.d, x.d * y.d,
                                     IF m.num = 0 THEN SecondsSlip ELSE {}))

\* int(float(hours) * 3600 * 1000 + float(minutes) * 60 * 1000
\*     + float(seconds) * 1000)
HourMinSecInt(hours, minutes, seconds) ==
    LET h == ParseFloat(hours)
        m == ParseFloat(minutes)
        sec == ParseFloat(seconds)
    IN  IF h.kind # "num" \/ m.kind # "num" \/ sec.kind # "num"
          THEN NonFinite({h.kind, m.kind, sec.kind})
        ELSE LET w == Times(h, 3600000)
                 x == Times(m, 60000)
                 y == Times(sec, 1000)
             IN  Returned(FloatTrunc(w.n * x.d * y.d + x.n * w.d * y.d
                                        + y.n * w.d * x.d,
                                     w.d * x.d * y.d,
                                     IF h.num = 0 /\ m.num = 0
                                       THEN SecondsSlip ELSE {}))

parse_time(s) ==
    IF EndsWith(s, <<"s">>)
      THEN ScaledInt(DropLast(s, 1), 1000, SecondsSlip)
    ELSE IF EndsWith(s, <<"m", "s">>)
      THEN ParseInt(DropLast(s, 2))
    ELSE IF EndsWith(s, <<"m">>)
      THEN ScaledInt(DropLast(s, 1), 60000, MinutesSlip)
    ELSE IF ":" \in Range(s)
      THEN LET parts == Split(s)
           IN  IF Len(parts) = 2 THEN MinSecInt(parts[1], parts[2])
               ELSE IF Len(parts) = 3
                 THEN HourMinSecInt(parts[1], parts[2], parts[3])
               ELSE ReturnedNone
    ELSE ScaledInt(s, 1000, SecondsSlip)

(***************************************************************************)
(* format_duration.  For an integer number of milliseconds the double      *)
(* total_seconds = duration_ms / 1000 yields the exact hour, minute and    *)
(* second fields, and {seconds:06.3f} prints the exact thousandths.        *)
(***************************************************************************)
\* {seconds:06.3f} for seconds = k / 1000
SecondsField(k) == NatToDigits(k \div 1000, 2) \o <<".">> \o NatToDigits(k % 1000, 3)

\* format_duration with the seconds printed to two decimals ({seconds:05.2f})
format_duration_2dp(d) ==
    LET hours == d \div 3600000
        minutes == (d % 3600000) \div 60000
        k == d % 60000
        field == NatToDigits(k \div 1000, 2) \o <<".">>
                    \o NatToDigits((k % 1000) \div 10, 2)
    IN  IF hours > 0
          THEN NatToDigits(hours, 2) \o <<":">> \o NatToDigits(minutes, 2)
                  \o <<":">> \o field
          ELSE NatToDigits(minutes, 2) \o <<":">> \o field

format_duration(d) ==
    LET hours == d \div 3600000
        minutes == (d % 3600000) \div 60000
        k == d % 60000
    IN  IF hours > 0
          THEN NatToDigits(hours, 2) \o <<":">> \o NatToDigits(minutes, 2)
                  \o <<":">> \o SecondsField(k)
          ELSE NatToDigits(minutes, 2) \o <<":">> \o SecondsField(k)

(***************************************************************************)
(* The time strings given to the program.                                  *)
(***************************************************************************)
\* the examples of the help text
EpilogStrings ==
    { <<"5", "s">>,                               \* 5s
      <<"1", "5", "m">>,                          \* 15m
      <<"5", "0", "0", "m", "s">>,                \* 500ms
      <<"1", ":", "3", "0">>,                     \* 1:30
      <<"1", ":", "2", "3", ":", "4", "5">>,      \* 1:23:45
      <<"7", "5", ".", "5">> }                    \* 75.5

\* boundaries of a few milliseconds, inside the sources of the model
ShortStrings ==
    { <<"0", ".", "0", "0", "1", "s">>,           \* 0.001s
      <<"0", ".", "0", "0", "9", "s">>,           \* 0.009s
      <<"0", ".", "0", "0", "3">>,                \* 0.003
      <<"0", ":", "0", ".", "0", "0", "5">>,      \* 0:0.005
      <<"0", ".", "0", "0", "0", "1", "m">>,      \* 0.0001m
      <<"0", "s">> }                              \* 0s

\* fractions, signs and strings outside the documented forms
OtherStrings ==
    { <<"1", ".", "0", "0", "1", "s">>,           \* 1.001s
      <<"0", ".", "0", "0", "4", "5", "m">>,      \* 0.0045m
      <<"-", "5", "s">>,                          \* -5s
      <<"-", "0", ".", "0", "0", "0", "5", "s">>, \* -0.0005s
      <<"1", ":", "2", ":", "3", ":", "4">>,      \* 1:2:3:4
      <<"1", ":">>,                               \* 1:
      <<"x", "s">>,                               \* xs
      <<"a", "b", "c">>,                          \* abc
      <<"i", "n", "f">>,                          \* inf
      <<"n", "a", "n">>,                          \* nan
      <<"1", ".", "2", ".", "3">>,                \* 1.2.3
      <<>> }                                      \* the empty string

TimeStrings == EpilogStrings \cup ShortStrings \cup OtherStrings

\* the durations given to format_duration
FormatValues ==
    { h * 3600000 + m * 60000 + sec * 1000 + f :
        h \in 0..MaxHours, m \in {0, 1, 59}, sec \in {0, 1, 59},
        f \in (0..MaxFrac) \cup {999} }

(***************************************************************************)
(* The audio source.  A wave file of total_frames frames holds             *)
(* total_frames * channels * sample_width bytes; byte i of the data is     *)
(* modelled by the number i, so that every byte is recognisable in a       *)
(* result.  A pydub segment of audio_len milliseconds is modelled by the   *)
(* sequence of its millisecond slices 1..audio_len.                        *)
(***************************************************************************)
Rates == {750, 1500, 3000}

FrameCounts == {0, 3, MaxFrames}

\* <<channels, sample_width>>
SampleFormats == {<<1, 1>>, <<2, 2>>}

AudioLens == 0..(MaxMs - 1)

FrameSize == channels * sample_width

FileData == [i \in 1..(total_frames * FrameSize) |-> i]

Audio == [i \in 1..audio_len |-> i]

\* int((self.total_frames / self.sample_rate) * 1000); the double result
\* truncates to the exact quotient for every source of at most 200 frames
DurationOf(frames, rate) == (frames * 1000) \div rate

\* The pairs <<ms, rate>> for which the double (ms / 1000) * rate is just
\* below the exact integer ms * rate / 1000, so that int() gives one frame
\* less (int((9 / 1000) * 3000) = 26).  Complete for the rates of the model
\* and boundaries below 60 ms.
FrameSlip == {<<9, 3000>>, <<18, 3000>>, <<36, 3000>>, <<18, 1500>>,
              <<36, 1500>>, <<36, 750>>}

\* a frame offset rounded up instead of truncated
MsToFrameCeil(ms) == (ms * sample_rate + 999) \div 1000

\* int((ms / 1000) * self.sample_rate)
MsToFrame(ms) ==
    FloatTrunc(ms * sample_rate, 1000,
               IF <<ms, sample_rate>> \in FrameSlip
                 THEN {(ms * sample_rate) \div 1000} ELSE {})

get_duration == IF backend = "pydub" THEN audio_len ELSE duration_ms

(***************************************************************************)
(* wave.Wave_read: setpos rejects a position outside 0..nframes,           *)
(* readframes(n) returns at most n frames from the current position, stops *)
(* at the end of the data and advances the position by what it read.       *)
(***************************************************************************)
CanSetpos(pos) == 0 <= pos /\ pos <= total_frames

\* the frames readframes(n) returns at position pos
FramesRead(pos, n) ==
    IF n < 0 \/ pos + n > total_frames THEN total_frames - pos ELSE n

ReadFrames(pos, n) ==
    [data |-> SubSeq(FileData, pos * FrameSize + 1,
                     (pos + FramesRead(pos, n)) * FrameSize),
     pos |-> pos + FramesRead(pos, n)]

\* outcomes of an operation of AudioCutter: the value returned or the
\* exception raised, and the read position it leaves behind
Ok(data, pos) == [status |-> "ok", data |-> data, pos |-> pos]

Fail(e, pos) == [status |-> e, data |-> <<>>, pos |-> pos]

_wav_cut_from_front(d) ==
    LET start_frame == MsToFrame(d)
        remaining_frames == total_frames - start_frame
    IN  IF ~CanSetpos(start_frame) THEN Fail("wave.Error", wave_pos)
        ELSE LET r == ReadFrames(start_frame, remaining_frames)
             IN  Ok(r.data, r.pos)

_wav_cut_from_back(d) ==
    LET cut_frames == MsToFrame(d)
        keep_frames == total_frames - cut_frames
        r == ReadFrames(0, keep_frames)
    IN  Ok(r.data, r.pos)

\* _wav_cut_from_middle reading end_frame frames before the cut
_wav_cut_from_middle_before_end(s, e) ==
    LET start_frame == MsToFrame(s)
        end_frame == MsToFrame(e)
        before == ReadFrames(0, end_frame)
    IN  IF ~CanSetpos(end_frame) THEN Fail("wave.Error", before.pos)
        ELSE LET after == ReadFrames(end_frame, total_frames - end_frame)
             IN  Ok(before.data \o after.data, after.pos)

\* _wav_cut_from_middle without the setpos(0) before its first read
_wav_cut_from_middle_no_setpos(s, e) ==
    LET start_frame == MsToFrame(s)
        end_frame == MsToFrame(e)
        before == ReadFrames(wave_pos, start_frame)
    IN  IF ~CanSetpos(end_frame) THEN Fail("wave.Error", before.pos)
        ELSE LET after == ReadFrames(end_frame, total_frames - end_frame)
             IN  Ok(before.data \o after.data, after.pos)

_wav_cut_from_middle(s, e) ==
    LET start_frame == MsToFrame(s)
        end_frame == MsToFrame(e)
        before == ReadFrames(0, start_frame)
    IN  IF ~CanSetpos(end_frame) THEN Fail("wave.Error", before.pos)
        ELSE LET after == ReadFrames(end_frame, total_frames - end_frame)
             IN  Ok(before.data \o after.data, after.pos)

_wav_extract_segment(s, e) ==
    LET start_frame == MsToFrame(s)
        end_frame == MsToFrame(e)
    IN  IF ~CanSetpos(start_frame) THEN Fail("wave.Error", wave_pos)
        ELSE LET r == ReadFrames(start_frame, end_frame - start_frame)
             IN  Ok(r.data, r.pos)

(***************************************************************************)
(* The four edit operations.                                               *)
(***************************************************************************)
\* cut_from_front with its second guard weakened to >
cut_from_front_gt(d) ==
    IF d <= 0 THEN Fail("ValueError", wave_pos)
    ELSE IF d > get_duration THEN Fail("ValueError", wave_pos)
    ELSE IF backend = "pydub"
      THEN Ok(SubSeq(Audio, d + 1, audio_len), wave_pos)
    ELSE _wav_cut_from_front(d)

cut_from_front(d) ==
    IF d <= 0 THEN Fail("ValueError", wave_pos)
    ELSE IF d >= get_duration THEN Fail("ValueError", wave_pos)
    ELSE IF backend = "pydub"
      THEN Ok(SubSeq(Audio, d + 1, audio_len), wave_pos)
    ELSE _wav_cut_from_front(d)

cut_from_back(d) ==
    IF d <= 0 THEN Fail("ValueError", wave_pos)
    ELSE IF d >= get_duration THEN Fail("ValueError", wave_pos)
    ELSE IF backend = "pydub"
      THEN Ok(SubSeq(Audio, 1, audio_len - d), wave_pos)
    ELSE _wav_cut_from_back(d)

cut_from_middle(s, e) ==
    IF s < 0 \/ e < 0 THEN Fail("ValueError", wave_pos)
    ELSE IF s >= e THEN Fail("ValueError", wave_pos)
    ELSE IF e > get_duration THEN Fail("ValueError", wave_pos)
    ELSE IF backend = "pydub"
      THEN Ok(SubSeq(Audio, 1, s) \o SubSeq(Audio, e + 1, audio_len), wave_pos)
    ELSE _wav_cut_from_middle(s, e)

extract_segment(s, e) ==
    IF s < 0 \/ e < 0 THEN Fail("ValueError", wave_pos)
    ELSE IF s >= e THEN Fail("ValueError", wave_pos)
    ELSE IF e > get_duration THEN Fail("ValueError", wave_pos)
    ELSE IF backend = "pydub"
      THEN Ok(SubSeq(Audio, s + 1, e), wave_pos)
    ELSE _wav_extract_segment(s, e)

\* the record kept of a call: the operation, its boundaries and its outcome
Call(op, a, b, r) ==
    [op |-> op, a |-> a, b |-> b, status |-> r.status, data |-> r.data]

NoCall == [op |-> "none", a |-> 0, b |-> 0, status |-> "none", data |-> <<>>]

(***************************************************************************)
(* Initial values of the three parts of the state.                         *)
(***************************************************************************)
NoSave == [written |-> FALSE, output_file |-> <<>>, requested |-> <<>>,
           path |-> <<>>, format |-> <<>>, container |-> "none",
           nchannels |-> 0, sampwidth |-> 0, framerate |-> 0, nbytes |-> 0]

ParseIdle ==
    /\ p_op = "none"
    /\ time_str = <<>>
    /\ parse_result = Raised("none")
    /\ format_arg = 0

NotConstructed ==
    /\ backend = "none"
    /\ sample_rate = 0
    /\ channels = 0
    /\ sample_width = 0
    /\ total_frames = 0
    /\ duration_ms = 0
    /\ audio_len = 0
    /\ wave_pos = 0
    /\ last = NoCall
    /\ prev = NoCall

MainIdle ==
    /\ pc = "idle"
    /\ exc = "none"
    /\ exit_status = -1
    /\ handled = FALSE
    /\ stdout = <<>>
    /\ stderr = <<>>
    /\ saved = NoSave
    /\ output_duration_ms = -1

\* the attributes AudioCutter.__init__ sets on a readable WAV file without
\* pydub
WaveSource(rate, frames, fmt) ==
    [backend |-> "wave", sample_rate |-> rate, channels |-> fmt[1],
     sample_width |-> fmt[2], total_frames |-> frames,
     duration_ms |-> DurationOf(frames, rate), audio_len |-> 0]

\* the attributes AudioCutter.__init__ sets with pydub
PydubSource(len) ==
    [backend |-> "pydub", sample_rate |-> 0, channels |-> 0,
     sample_width |-> 0, total_frames |-> 0, duration_ms |-> 0,
     audio_len |-> len]

Sources ==
    {WaveSource(rate, frames, fmt) :
        rate \in Rates, frames \in FrameCounts, fmt \in SampleFormats}
    \cup {PydubSource(len) : len \in AudioLens}

\* the object after construction on source src
Loaded(src) ==
    /\ backend = src.backend
    /\ sample_rate = src.sample_rate
    /\ channels = src.channels
    /\ sample_width = src.sample_width
    /\ total_frames = src.total_frames
    /\ duration_ms = src.duration_ms
    /\ audio_len = src.audio_len
    /\ wave_pos = 0

(***************************************************************************)
(* Specification SpecParse: calls of parse_time on the time strings, and   *)
(* of parse_time on the output of format_duration.                         *)
(***************************************************************************)
InitParse == ParseIdle /\ NotConstructed /\ MainIdle

ParseTime ==
    \E s \in TimeStrings :
        /\ p_op' = "parse"
        /\ time_str' = s
        /\ parse_result' = parse_time(s)
        /\ format_arg' = 0
        /\ UNCHANGED <<cutterVars, last, prev, mainVars>>

FormatThenParse ==
    \E v \in FormatValues :
        /\ p_op' = "roundtrip"
        /\ format_arg' = v
        /\ time_str' = format_duration(v)
        /\ parse_result' = parse_time(format_duration(v))
        /\ UNCHANGED <<cutterVars, last, prev, mainVars>>

NextParse == ParseTime \/ FormatThenParse

SpecParse == InitParse /\ [][NextParse]_vars

(***************************************************************************)
(* Specification SpecEdit: any sequence of edit operations on one loaded   *)
(* AudioCutter.                                                            *)
(***************************************************************************)
MsArgs == (-1)..MaxMs

InitEdit ==
    /\ ParseIdle
    /\ MainIdle
    /\ \E src \in Sources : Loaded(src)
    /\ last = NoCall
    /\ prev = NoCall

\* the effect of a call with outcome r on the object
Called(op, a, b, r) ==
    /\ last' = Call(op, a, b, r)
    /\ wave_pos' = r.pos
    /\ UNCHANGED <<backend, sample_rate, channels, sample_width,
                   total_frames, duration_ms, audio_len>>

CutFront ==
    \E d \in MsArgs :
        /\ Called("cut_from_front", d, 0, cut_from_front(d))
        /\ prev' = NoCall
        /\ UNCHANGED <<parseVars, mainVars>>

CutBack ==
    \E d \in MsArgs :
        /\ Called("cut_from_back", d, 0, cut_from_back(d))
        /\ prev' = NoCall
        /\ UNCHANGED <<parseVars, mainVars>>

CutMiddle ==
    \E s \in MsArgs, e \in MsArgs :
        /\ Called("cut_from_middle", s, e, cut_from_middle(s, e))
        /\ prev' = NoCall
        /\ UNCHANGED <<parseVars, mainVars>>

Extract ==
    \E s \in MsArgs, e \in MsArgs :
        /\ Called("extract_segment", s, e, extract_segment(s, e))
        /\ prev' = NoCall
        /\ UNCHANGED <<parseVars, mainVars>>

\* cut_from_middle called with the boundaries of the extract_segment call
\* just before it
CutMiddleOfExtract ==
    /\ last.op = "extract_segment"
    /\ Called("cut_from_middle", last.a, last.b,
              cut_from_middle(last.a, last.b))
    /\ prev' = last
    /\ UNCHANGED <<parseVars, mainVars>>

NextEdit == CutFront \/ CutBack \/ CutMiddle \/ Extract \/ CutMiddleOfExtract

SpecEdit == InitEdit /\ [][NextEdit]_vars

(***************************************************************************)
(* Paths (pathlib.PurePath on POSIX).                                      *)
(***************************************************************************)
\* the last component of the path
PathName(p) ==
    LET slashes == {i \in 1..Len(p) : p[i] = "/"}
        cut == IF slashes = {} THEN 0
               ELSE CHOOSE i \in slashes : \A j \in slashes : j <= i
    IN  SubSeq(p, cut + 1, Len(p))

\* Path.suffix: from the last dot of the name, unless the dot is its first
\* or its last character
PathSuffix(p) ==
    LET name == PathName(p)
        dots == {i \in 1..Len(name) : name[i] = "."}
        i == IF dots = {} THEN 0
             ELSE CHOOSE k \in dots : \A j \in dots : j <= k
    IN  IF 1 < i /\ i < Len(name) THEN SubSeq(name, i, Len(name)) ELSE <<>>

\* Path.with_suffix for a path with a name
WithSuffix(p, suffix) == DropLast(p, Len(PathSuffix(p))) \o suffix

DotWav == <<".", "w", "a", "v">>

InputFiles ==
    { <<"i", "n", ".", "w", "a", "v">>,           \* in.wav
      <<"i", "n", ".", "W", "A", "V">>,           \* in.WAV
      <<"i", "n", ".", "m", "p", "3">> }          \* in.mp3

OutputFiles ==
    { <<"o", "u", "t", ".", "w", "a", "v">>,      \* out.wav
      <<"o", "u", "t", ".", "W", "A", "V">>,      \* out.WAV
      <<"o", "u", "t", ".", "m", "p", "3">>,      \* out.mp3
      <<"o", "u", "t", ".", "M", "P", "3">>,      \* out.MP3
      <<"o", "u", "t">>,                          \* out
      <<"a", ".", "b", "/", "o", "u", "t">> }     \* a.b/out

\* args.format when --format is not given
None == <<"None">>

Formats == {None, <<"w", "a", "v">>, <<"o", "g", "g">>}

(***************************************************************************)
(* save_audio.  writable tells whether the export or the write succeeds.   *)
(***************************************************************************)
\* what was written: the call's output_file and format arguments, the path
\* written to, the format given to export (pydub), the container, and the
\* parameters and size of the data
Saved(output_file, requested, path, format, container, data) ==
    [status |-> "ok",
     saved |-> [written |-> TRUE, output_file |-> output_file,
                requested |-> requested, path |-> path, format |-> format,
                container |-> container,
                nchannels |-> channels, sampwidth |-> sample_width,
                framerate |-> sample_rate, nbytes |-> Len(data)]]

NotSaved(e) == [status |-> e, saved |-> NoSave]

\* save_audio writing the wave data to the requested path as it is
save_audio_keep_path(audio_data, output_file, format, writable) ==
    IF backend = "pydub"
      THEN LET fmt == IF format = None
                        THEN IF PathSuffix(output_file) # <<>>
                               THEN Lower(Tail(PathSuffix(output_file)))
                               ELSE <<"m", "p", "3">>
                        ELSE format
           IN  IF writable
                 THEN Saved(output_file, format, output_file, fmt, "export",
                            audio_data)
                 ELSE NotSaved("ValueError")
    ELSE IF writable
           THEN Saved(output_file, format, output_file, <<>>, "wav_pcm",
                      audio_data)
         ELSE NotSaved("ValueError")

save_audio(audio_data, output_file, format, writable) ==
    IF backend = "pydub"
      THEN LET fmt == IF format = None
                        THEN IF PathSuffix(output_file) # <<>>
                               THEN Lower(Tail(PathSuffix(output_file)))
                               ELSE <<"m", "p", "3">>
                        ELSE format
           IN  IF writable
                 THEN Saved(output_file, format, output_file, fmt, "export",
                            audio_data)
                 ELSE NotSaved("ValueError")
    ELSE LET output_path == IF ~EndsWith(Lower(output_file), DotWav)
                              THEN WithSuffix(output_file, DotWav)
                              ELSE output_file
         IN  IF writable
               THEN Saved(output_file, format, output_path, <<>>, "wav_pcm",
                          audio_data)
             ELSE NotSaved("ValueError")

(***************************************************************************)
(* main.  The command line is read where main uses it: the input file in   *)
(* Construct, --info in Info, the operation and its time strings in the    *)
(* Edit actions, the output file and --format in Save.                     *)
(***************************************************************************)
MainTimeStrings == EpilogStrings \cup ShortStrings \cup
    { <<"-", "5", "s">>,
      <<"1", ":", "2", ":", "3", ":", "4">>,
      <<"a", "b", "c">>,
      <<"i", "n", "f">>,
      <<>> }

Running == {"construct", "info", "edit", "save", "duration"}

Raise(e) ==
    /\ pc' = "raised"
    /\ exc' = e

\* the exception the first guard of an operation raises before its
\* arguments are known to be integers, "none" if it raises none:
\* duration_ms <= 0 (lines 47 and 58) raises TypeError on None
NoneDuration(t) == IF t.kind = "None" THEN "TypeError" ELSE "none"

\* start_ms < 0 or end_ms < 0 (lines 69 and 84) compares start_ms first,
\* and end_ms only if start_ms is not negative
NoneRange(t, u) ==
    IF t.kind = "None" THEN "TypeError"
    ELSE IF t.val < 0 THEN "ValueError"
    ELSE IF u.kind = "None" THEN "TypeError"
    ELSE "none"

InitMain ==
    /\ ParseIdle
    /\ NotConstructed
    /\ pc = "construct"
    /\ exc = "none"
    /\ exit_status = -1
    /\ handled = FALSE
    /\ stdout = <<>>
    /\ stderr = <<>>
    /\ saved = NoSave
    /\ output_duration_ms = -1

\* the assignments of AudioCutter.__init__ on source src
Load(src) ==
    /\ backend' = src.backend
    /\ sample_rate' = src.sample_rate
    /\ channels' = src.channels
    /\ sample_width' = src.sample_width
    /\ total_frames' = src.total_frames
    /\ duration_ms' = src.duration_ms
    /\ audio_len' = src.audio_len
    /\ wave_pos' = 0

\* cutter = AudioCutter(args.input_file)
Construct ==
    /\ pc = "construct"
    /\ \E input_file \in InputFiles, exists \in BOOLEAN,
          PYDUB_AVAILABLE \in BOOLEAN, readable \in BOOLEAN :
        IF ~exists
          THEN Raise("FileNotFoundError") /\ UNCHANGED cutterVars
        ELSE IF PYDUB_AVAILABLE
          THEN IF ~readable
                 THEN Raise("ValueError") /\ UNCHANGED cutterVars
                 ELSE /\ \E len \in AudioLens : Load(PydubSource(len))
                      /\ pc' = "info"
                      /\ exc' = exc
        ELSE IF ~EndsWith(Lower(input_file), DotWav)
          THEN Raise("ValueError") /\ UNCHANGED cutterVars
        ELSE IF ~readable
          THEN Raise("ValueError") /\ UNCHANGED cutterVars
        ELSE /\ \E rate \in Rates, frames \in FrameCounts,
                   fmt \in SampleFormats :
                     Load(WaveSource(rate, frames, fmt))
             /\ pc' = "info"
             /\ exc' = exc
    /\ UNCHANGED <<parseVars, last, prev, exit_status, handled, stdout,
                   stderr, saved, output_duration_ms>>

\* if args.info: print the duration
Info ==
    /\ pc = "info"
    /\ \E info \in BOOLEAN :
        stdout' = IF info THEN Append(stdout, "Audio duration") ELSE stdout
    /\ pc' = "edit"
    /\ UNCHANGED <<parseVars, cutterVars, last, prev, exc, exit_status,
                   handled, stderr, saved, output_duration_ms>>

\* the end of a branch of the if/elif chain: r is the outcome of the edit
\* operation
Edited(op, a, b, r, line) ==
    /\ last' = Call(op, a, b, r)
    /\ wave_pos' = r.pos
    /\ IF r.status = "ok"
         THEN /\ stdout' = Append(stdout, line)
              /\ pc' = "save"
              /\ exc' = exc
         ELSE /\ Raise(r.status)
              /\ stdout' = stdout
    /\ UNCHANGED <<parseVars, backend, sample_rate, channels, sample_width,
                   total_frames, duration_ms, audio_len, prev, exit_status,
                   handled, stderr, saved, output_duration_ms>>

\* parse_time raised e before the edit operation was called
ParseRaised(e) ==
    /\ Raise(e)
    /\ UNCHANGED <<parseVars, cutterVars, last, prev, exit_status, handled,
                   stdout, stderr, saved, output_duration_ms>>

\* no branch of the if/elif chain is taken: result_audio stays unbound
NoBranch(op) ==
    /\ last' = Call(op, 0, 0, Fail("unbound", wave_pos))
    /\ pc' = "save"
    /\ UNCHANGED <<parseVars, cutterVars, prev, exc, exit_status, handled,
                   stdout, stderr, saved, output_duration_ms>>

ParseFailed(t) == t.kind \notin {"int", "None"}

MainCutFront ==
    /\ pc = "edit"
    /\ \E str \in MainTimeStrings :
        LET t == parse_time(str)
        IN  IF str = <<>> THEN NoBranch("cut_from_front")
            ELSE IF ParseFailed(t) THEN ParseRaised(t.kind)
            ELSE Edited("cut_from_front", t.val, 0,
                        IF NoneDuration(t) # "none"
                          THEN Fail(NoneDuration(t), wave_pos)
                          ELSE cut_from_front(t.val),
                        "Cutting from front")

MainCutBack ==
    /\ pc = "edit"
    /\ \E str \in MainTimeStrings :
        LET t == parse_time(str)
        IN  IF str = <<>> THEN NoBranch("cut_from_back")
            ELSE IF ParseFailed(t) THEN ParseRaised(t.kind)
            ELSE Edited("cut_from_back", t.val, 0,
                        IF NoneDuration(t) # "none"
                          THEN Fail(NoneDuration(t), wave_pos)
                          ELSE cut_from_back(t.val),
                        "Cutting from back")

MainCutMiddle ==
    /\ pc = "edit"
    /\ \E str1 \in MainTimeStrings, str2 \in MainTimeStrings :
        LET t == parse_time(str1)
            u == parse_time(str2)
        IN  IF ParseFailed(t) THEN ParseRaised(t.kind)
            ELSE IF ParseFailed(u) THEN ParseRaised(u.kind)
            ELSE Edited("cut_from_middle", t.val, u.val,
                        IF NoneRange(t, u) # "none"
                          THEN Fail(NoneRange(t, u), wave_pos)
                          ELSE cut_from_middle(t.val, u.val),
                        "Cutting section")

MainExtract ==
    /\ pc = "edit"
    /\ \E str1 \in MainTimeStrings, str2 \in MainTimeStrings :
        LET t == parse_time(str1)
            u == parse_time(str2)
        IN  IF ParseFailed(t) THEN ParseRaised(t.kind)
            ELSE IF ParseFailed(u) THEN ParseRaised(u.kind)
            ELSE Edited("extract_segment", t.val, u.val,
                        IF NoneRange(t, u) # "none"
                          THEN Fail(NoneRange(t, u), wave_pos)
                          ELSE extract_segment(t.val, u.val),
                        "Extracting section")

\* output_path = cutter.save_audio(result_audio, args.output, args.format)
Save ==
    /\ pc = "save"
    /\ \E output \in OutputFiles, format \in Formats, writable \in BOOLEAN :
        IF last.status = "unbound"
          THEN /\ Raise("UnboundLocalError")
               /\ UNCHANGED <<saved, stdout>>
        ELSE LET r == save_audio(last.data, output, format, writable)
             IN  IF r.status = "ok"
                   THEN /\ saved' = r.saved
                        /\ stdout' = Append(stdout, "Saved to")
                        /\ pc' = "duration"
                        /\ exc' = exc
                   ELSE /\ Raise(r.status)
                        /\ UNCHANGED <<saved, stdout>>
    /\ UNCHANGED <<parseVars, cutterVars, last, prev, exit_status, handled,
                   stderr, output_duration_ms>>

\* the output duration with the channel count left out of the frame size
OutputDurationNoChannels(result_audio) ==
    IF backend = "pydub" THEN Len(result_audio)
    ELSE LET bytes_per_sample == sample_width
             samples == Len(result_audio) \div bytes_per_sample
         IN  (samples * 1000) \div sample_rate

\* the duration of the result as main computes it; the double
\* (samples / sample_rate) * 1000 truncates to the exact quotient for
\* results of at most 200 frames
OutputDuration(result_audio) ==
    IF backend = "pydub" THEN Len(result_audio)
    ELSE LET bytes_per_sample == sample_width * channels
             samples == Len(result_audio) \div bytes_per_sample
         IN  (samples * 1000) \div sample_rate

\* print the output duration; main returns and the process exits with 0
PrintDuration ==
    /\ pc = "duration"
    /\ output_duration_ms' = OutputDuration(last.data)
    /\ stdout' = Append(stdout, "Output duration")
    /\ pc' = "done"
    /\ exit_status' = 0
    /\ UNCHANGED <<parseVars, cutterVars, last, prev, exc, handled, stderr,
                   saved>>

\* Ctrl-C while main runs
Interrupt ==
    /\ pc \in Running
    /\ Raise("KeyboardInterrupt")
    /\ UNCHANGED <<parseVars, cutterVars, last, prev, exit_status, handled,
                   stdout, stderr, saved, output_duration_ms>>

\* except (FileNotFoundError, ValueError) as e
ExceptError ==
    /\ pc = "raised"
    /\ exc \in {"FileNotFoundError", "ValueError"}
    /\ stderr' = Append(stderr, "Error")
    /\ handled' = TRUE
    /\ exit_status' = 1
    /\ pc' = "done"
    /\ UNCHANGED <<parseVars, cutterVars, last, prev, exc, stdout, saved,
                   output_duration_ms>>

\* except KeyboardInterrupt
ExceptKeyboardInterrupt ==
    /\ pc = "raised"
    /\ exc = "KeyboardInterrupt"
    /\ stderr' = Append(stderr, "Operation cancelled")
    /\ handled' = TRUE
    /\ exit_status' = 1
    /\ pc' = "done"
    /\ UNCHANGED <<parseVars, cutterVars, last, prev, exc, stdout, saved,
                   output_duration_ms>>

\* no except clause matches: the exception leaves main, the interpreter
\* prints the traceback and exits with 1
Uncaught ==
    /\ pc = "raised"
    /\ exc \notin {"FileNotFoundError", "ValueError", "KeyboardInterrupt"}
    /\ stderr' = stderr \o <<"Traceback (most recent call last):", exc>>
    /\ exit_status' = 1
    /\ pc' = "done"
    /\ UNCHANGED <<parseVars, cutterVars, last, prev, exc, handled, stdout,
                   saved, output_duration_ms>>

NextMain ==
    \/ Construct
    \/ Info
    \/ MainCutFront
    \/ MainCutBack
    \/ MainCutMiddle
    \/ MainExtract
    \/ Save
    \/ PrintDuration
    \/ Interrupt
    \/ ExceptError
    \/ ExceptKeyboardInterrupt
    \/ Uncaught

SpecMain == InitMain /\ [][NextMain]_vars

(***************************************************************************)
(* Properties.                                                             *)
(***************************************************************************)
\* the length of a result in frames (wave) or millisecond slices (pydub)
UnitsOf(data) == IF backend = "wave" THEN Len(data) \div FrameSize ELSE Len(data)

TotalUnits == IF backend = "wave" THEN total_frames ELSE audio_len

\* the boundaries satisfy 0 <= start < end <= source duration
ValidRange(s, e) == 0 <= s /\ s < e /\ e <= get_duration

\* C1: for 0 <= start_ms < end_ms <= duration, the frames returned by
\* extract_segment(start_ms, end_ms) plus the frames returned by
\* cut_from_middle(start_ms, end_ms) are the frames of the source, within
\* one frame.
C1_ExtractPlusCutMiddle ==
    (prev.op = "extract_segment" /\ ValidRange(prev.a, prev.b)) =>
        /\ prev.status = "ok"
        /\ last.status = "ok"
        /\ Abs(UnitsOf(prev.data) + UnitsOf(last.data) - TotalUnits) <= 1

C1_Witness ==
    /\ backend = "wave"
    /\ prev.op = "extract_segment"
    /\ ValidRange(prev.a, prev.b)
    /\ last.op = "cut_from_middle"
    /\ UnitsOf(prev.data) >= 2
    /\ UnitsOf(last.data) >= 2

\* a string that float() reads as a finite number
IsNumber(s) == ParseFloat(s).kind = "num"

\* the forms of section 4.1: <float>s, <int>ms, <float>m, MM:SS, HH:MM:SS
\* and a bare float
IsMilliseconds(s) ==
    EndsWith(s, <<"m", "s">>) /\ ParseInt(DropLast(s, 2)).kind = "int"

IsSeconds(s) == EndsWith(s, <<"s">>) /\ IsNumber(DropLast(s, 1))

IsMinutes(s) == EndsWith(s, <<"m">>) /\ IsNumber(DropLast(s, 1))

IsClock(s) ==
    /\ Len(Split(s)) \in {2, 3}
    /\ \A i \in 1..Len(Split(s)) : IsNumber(Split(s)[i])

Recognised(s) ==
    IsMilliseconds(s) \/ IsSeconds(s) \/ IsMinutes(s) \/ IsClock(s)
        \/ IsNumber(s)

\* the milliseconds the unit of a recognised string stands for, truncated
\* toward zero after scaling
ExpectedMs(s) ==
    IF IsMilliseconds(s) THEN ParseInt(DropLast(s, 2)).val
    ELSE IF IsSeconds(s) THEN ScaledInt(DropLast(s, 1), 1000, SecondsSlip).val
    ELSE IF IsMinutes(s) THEN ScaledInt(DropLast(s, 1), 60000, MinutesSlip).val
    ELSE IF Len(Split(s)) = 2
      THEN MinSecInt(Split(s)[1], Split(s)[2]).val
    ELSE IF Len(Split(s)) = 3
      THEN HourMinSecInt(Split(s)[1], Split(s)[2], Split(s)[3]).val
    ELSE ScaledInt(s, 1000, SecondsSlip).val

\* C2: parse_time converts each accepted form to integer milliseconds
\* according to its unit; parse_time("1:30") = 90000, parse_time("5s") =
\* 5000, parse_time("500ms") = 500 and parse_time("1:23:45") = 5025000.
C2_ParseByUnit ==
    (p_op = "parse" /\ Recognised(time_str)) =>
        /\ parse_result = Returned(ExpectedMs(time_str))
        /\ time_str = <<"1", ":", "3", "0">> => parse_result.val = 90000
        /\ time_str = <<"5", "s">> => parse_result.val = 5000
        /\ time_str = <<"5", "0", "0", "m", "s">> => parse_result.val = 500
        /\ time_str = <<"1", ":", "2", "3", ":", "4", "5">>
              => parse_result.val = 5025000

\* the boundaries for which an operation must fail
BadDuration(d) == d <= 0 \/ d >= get_duration

BadRange(s, e) == s < 0 \/ e < 0 \/ s >= e \/ e > get_duration

MustFail(call) ==
    IF call.op \in {"cut_from_front", "cut_from_back"}
      THEN BadDuration(call.a)
      ELSE BadRange(call.a, call.b)

\* C3: each edit operation raises the validation error exactly when its
\* boundaries are outside its valid set, and returns audio data otherwise.
C3_Validation ==
    last.op # "none" =>
        /\ last.status = "ValueError" <=> MustFail(last)
        /\ last.status = "ok" <=> ~MustFail(last)

C3_Witness ==
    /\ last.op = "cut_from_front"
    /\ last.a > 0
    /\ last.a = get_duration
    /\ last.status = "ValueError"

\* C4: a run of main ends either with status 0, every step having
\* succeeded and the output path printed, or with status 1 after the
\* top-level handler caught the failure and printed one line to stderr.
C4_TwoWaysToEnd ==
    pc = "done" =>
        \/ /\ exit_status = 0
           /\ exc = "none"
           /\ saved.written
           /\ "Saved to" \in Range(stdout)
           /\ stderr = <<>>
        \/ /\ exit_status = 1
           /\ exc # "none"
           /\ handled
           /\ Len(stderr) = 1

\* C5: parse_time returns an integer or fails with the format error, and
\* fails with the format error on every string outside the recognised
\* forms.
C5_IntOrFormatError ==
    p_op = "parse" =>
        /\ parse_result.kind \in {"int", "ValueError"}
        /\ ~Recognised(time_str) => parse_result.kind = "ValueError"

\* the output duration main prints minus (source duration - d)
DurationGap == output_duration_ms - (get_duration - last.a)

AfterCutFront ==
    /\ pc = "done"
    /\ exit_status = 0
    /\ last.op = "cut_from_front"

\* C6 as stated: after cut_from_front(d) the recomputed output duration
\* differs from (source duration - d) by at most one frame period
\* (1000 / sample_rate milliseconds).
C6_WithinOneFramePeriod ==
    AfterCutFront =>
        IF backend = "wave" THEN Abs(DurationGap) * sample_rate <= 1000
        ELSE DurationGap = 0

\* C6 amended: after cut_from_front(d) the recomputed output duration
\* differs from (source duration - d) by at most one frame period plus one
\* millisecond.
C6_WithinFramePeriodPlusOneMs ==
    AfterCutFront =>
        IF backend = "wave"
          THEN Abs(DurationGap) * sample_rate <= 1000 + sample_rate
          ELSE DurationGap = 0

C6_Witness ==
    /\ AfterCutFront
    /\ backend = "wave"
    /\ DurationGap * sample_rate > 1000

\* C7: for a non-negative integer v, parse_time(format_duration(v)) is
\* within 1 ms of v, below one hour (MM:SS.fff) and from one hour on
\* (HH:MM:SS.fff).
C7_RoundTrip ==
    p_op = "roundtrip" =>
        /\ parse_result.kind = "int"
        /\ Abs(parse_result.val - format_arg) <= 1

C7_Witness ==
    /\ p_op = "roundtrip"
    /\ format_arg >= 3600000
    /\ Len(Split(time_str)) = 3
    /\ parse_result = Returned(format_arg)

\* the extension of a path without its dot, in lower case
Extension(p) ==
    IF PathSuffix(p) = <<>> THEN <<>> ELSE Lower(Tail(PathSuffix(p)))

WavWritten ==
    /\ saved.container = "wav_pcm"
    /\ saved.nchannels = channels
    /\ saved.sampwidth = sample_width
    /\ saved.framerate = sample_rate
    /\ EndsWith(Lower(saved.path), DotWav)

\* C8 as stated: on the wave backend save_audio writes a PCM WAV file with
\* the source's parameters to a .wav path, whatever the output path and
\* --format; on the pydub backend the format is --format when given,
\* otherwise the extension of the output path.
C8_OutputFormat ==
    saved.written =>
        IF backend = "wave" THEN WavWritten
        ELSE saved.format = IF saved.requested # None THEN saved.requested
                            ELSE Extension(saved.output_file)

\* C8 amended: as C8, but on the pydub backend without --format the format
\* is the extension of the output path in lower case, or mp3 when the
\* output path has no extension.
C8_OutputFormatOrMp3 ==
    saved.written =>
        IF backend = "wave" THEN WavWritten
        ELSE saved.format =
                IF saved.requested # None THEN saved.requested
                ELSE IF Extension(saved.output_file) # <<>>
                  THEN Extension(saved.output_file)
                ELSE <<"m", "p", "3">>

C8_Witness ==
    /\ saved.written
    /\ backend = "wave"
    /\ saved.requested = <<"o", "g", "g">>
    /\ saved.output_file = <<"o", "u", "t", ".", "m", "p", "3">>
    /\ saved.path = <<"o", "u", "t", ".", "w", "a", "v">>

\* C9: on the wave backend, for boundaries that pass the guards, the frame
\* offsets satisfy 0 <= start_frame <= end_frame <= total_frames, the frame
\* count of cut_from_front / cut_from_back is below total_frames, no seek
\* fails and cut_from_front / cut_from_back return a non-empty result.
C9_FramesInRange ==
    (backend = "wave" /\ last.op # "none" /\ last.status # "ValueError") =>
        /\ last.status = "ok"
        /\ IF last.op \in {"cut_from_front", "cut_from_back"}
             THEN /\ 0 <= MsToFrame(last.a)
                  /\ MsToFrame(last.a) < total_frames
                  /\ last.data # <<>>
             ELSE /\ 0 <= MsToFrame(last.a)
                  /\ MsToFrame(last.a) <= MsToFrame(last.b)
                  /\ MsToFrame(last.b) <= total_frames

C9_Witness ==
    /\ backend = "wave"
    /\ last.op = "extract_segment"
    /\ last.status = "ok"
    /\ MsToFrame(last.b) = total_frames
    /\ last.a > 0

\* frames first + 1 .. upto of the file
FramesOfFile(first, upto) == SubSeq(FileData, first * FrameSize + 1, upto * FrameSize)

\* what a successful call returns on a freshly loaded source
FreshResult(call) ==
    IF backend = "pydub"
      THEN CASE call.op = "cut_from_front" -> SubSeq(Audio, call.a + 1, audio_len)
             [] call.op = "cut_from_back" -> SubSeq(Audio, 1, audio_len - call.a)
             [] call.op = "cut_from_middle" ->
                    SubSeq(Audio, 1, call.a) \o SubSeq(Audio, call.b + 1, audio_len)
             [] call.op = "extract_segment" -> SubSeq(Audio, call.a + 1, call.b)
      ELSE CASE call.op = "cut_from_front" ->
                    FramesOfFile(MsToFrame(call.a), total_frames)
             [] call.op = "cut_from_back" ->
                    FramesOfFile(0, total_frames - MsToFrame(call.a))
             [] call.op = "cut_from_middle" ->
                    FramesOfFile(0, MsToFrame(call.a))
                        \o FramesOfFile(MsToFrame(call.b), total_frames)
             [] call.op = "extract_segment" ->
                    FramesOfFile(MsToFrame(call.a), MsToFrame(call.b))

SourceAttributes ==
    <<backend, sample_rate, channels, sample_width, total_frames, duration_ms,
      audio_len>>

\* C10: no edit operation changes the sample rate, channel count, sample
\* width, frame count or duration of the source, and every operation
\* returns the bytes it returns on a freshly loaded source, whatever read
\* position earlier operations left behind.
C10_SourceUntouched ==
    [][ /\ SourceAttributes' = SourceAttributes
        /\ last'.status = "ok" => last'.data = FreshResult(last)'
        /\ last'.status = (IF MustFail(last)' THEN "ValueError" ELSE "ok")
      ]_vars

C10_Witness ==
    /\ backend = "wave"
    /\ prev.op = "extract_segment"
    /\ prev.status = "ok"
    /\ prev.data # <<>>
    /\ last.op = "cut_from_middle"
    /\ last.status = "ok"
    /\ wave_pos = total_frames
    /\ last.data = FreshResult(last)
    /\ last.a > 0

====
